---- MODULE Spec2Model ----
(***************************************************************************)
(* The NCA header decode pipeline of src/format/nca/mod.rs:                *)
(*   byte stream -> decrypt_header (two-stage XTS decryption, magic        *)
(*   dispatch, RawNca decode) -> Nca::from_file (master key revision,      *)
(*   key-area-key lookup, key derivation, section table, NcaJson).         *)
(*                                                                         *)
(* A run of from_file is a sequence of steps (pc); a run ends in one of    *)
(* three outcomes: Ok (a container), Err (a returned Error value) or Panic *)
(* (todo!, unimplemented!, unreachable!, assert_eq!, expect, or an         *)
(* out-of-range index).                                                    *)
(*                                                                         *)
(* The 0xC00-byte header is six 0x200-byte sectors.  A sector is           *)
(* [body, mask]: body holds the fields the sector encodes and mask is the  *)
(* keystream still lying over them (0: the fields read as they are).  The  *)
(* cipher, the key-set store and the fixed-offset decoder live in pki.rs   *)
(* and structures.rs, outside mod.rs; they are modelled at the interface   *)
(* mod.rs consumes.                                                        *)
(***************************************************************************)
EXTENDS Integers, Sequences, FiniteSets, TLC

VARIABLES
    keys,                \* pki: &Keys, the key-set store
    stream,              \* file: R, [buf, pos]
    input,               \* the key set and byte buffer the caller supplied
    pc,                  \* position inside from_file / decrypt_header
    header,              \* let mut header = [0; 0xC00]
    decrypted_header,    \* let mut decrypted_header = [0; 0xC00]
    magic,               \* &decrypted_header[0x200..][..4]
    raw,                 \* the RawNca returned by decrypt_header
    master_key_revision, \* let master_key_revision
    key_area_key,        \* let key_area_key
    decrypted_keys,      \* let decrypted_keys
    sections,            \* let mut sections
    idx,                 \* the section loop's idx
    outcome,             \* what the call ended in
    calls                \* the collaborator calls made so far, in order

vars == <<keys, stream, input, pc, header, decrypted_header, magic,
          raw, master_key_revision, key_area_key, decrypted_keys, sections,
          idx, outcome, calls>>

----------------------------------------------------------------------------
(* Program constants *)

\* u8: the width of crypto_type, crypto_type2 and key_revision
ByteMod == 256
\* 0xC00 bytes = 6 sectors of 0x200
SectorCount == 6
\* 0x400 bytes = 2 sectors of 0x200
FirstPassSectors == 2
\* [None, None, None, None]
SectionCount == 4
\* the length of each key-area-key table of the key-set store
KeyTableLen == 32

(* Bounds of the model *)

\* keystream values are 1 .. MaskMod-1; masks are added modulo MaskMod
MaskMod == 7
\* the range kept of every multi-byte header field
FieldMod == 8

None == [some |-> FALSE]
Some(v) == [some |-> TRUE, v |-> v]

\* The 4 bytes of a magic, as a number: 0 is 00 00 00 00 and every other
\* value that is none of the three magics of the match at lines 144-163.
Magics == <<"JUNK", "NCA3", "NCA2", "NCA0">>
MagicCode(m) == CHOOSE c \in 0..(Len(Magics) - 1) : Magics[c + 1] = m
KeyTypes == <<"Application", "Ocean", "System">>
HexDigits == <<"0", "1", "2", "3", "4", "5", "6", "7",
               "8", "9", "a", "b", "c", "d", "e", "f">>

----------------------------------------------------------------------------
(* The cipher: AesXtsKey::decrypt(buf, sector_index, sector_size = 0x200) *)

\* The keystream of key k over sector j: never 0, different for the two keys.
Stream(k, j) == 1 + ((3 * k + j) % (MaskMod - 1))

\* One sector decrypted under key k as sector j.
DecryptSector(k, sec, j) ==
    [sec EXCEPT !.mask = (@ + MaskMod - Stream(k, j)) % MaskMod]

EncryptSector(k, sec, j) ==
    [sec EXCEPT !.mask = (@ + Stream(k, j)) % MaskMod]

\* header_key.decrypt(&mut buf, sector_index, 0x200): sector i of buf (from 0)
\* is decrypted as sector sector_index + i.  The buffers mod.rs passes are
\* whole sectors, so the call's Result is always Ok.
decrypt(k, buf, sector_index) ==
    [i \in 1..Len(buf) |-> DecryptSector(k, buf[i], sector_index + i - 1)]

\* A field of range m read from a sector: shifted by what keystream is left.
Rd(sec, v, m) == (v + sec.mask) % m

----------------------------------------------------------------------------
(* The input: a header in the clear, encrypted under the header key *)

\* The key the containers were encrypted under; the store may hold another.
HeaderKeys == {1, 2}
HeaderEncKey == CHOOSE k \in HeaderKeys : \A j \in HeaderKeys : k <= j

\* Values of crypto_type and of crypto_type2 (u8) the runs are drawn from.
CryptoTypes == {0, 1, 5, 33}
CryptoTypes2 == {0, 3, 32, 255}
\* rights_id: 0 is sixteen zero bytes, anything else is a rights id.
RightsIds == {0, 3}

\* What an fs-header slot holds: nothing, a version-2 Pfs0 header, a header
\* of another version, a version-2 header whose superblock is RomFs.
FsPatterns ==
    { <<"none", "none", "none", "none">>,
      <<"pfs0", "none", "pfs0", "none">>,
      <<"pfs0", "pfs0", "pfs0", "pfs0">>,
      <<"pfs0", "v3", "none", "none">>,
      <<"none", "none", "none", "v0">>,
      <<"pfs0", "none", "romfs", "pfs0">> }

Headers ==
    [magic : 0..(Len(Magics) - 1), crypto_type : CryptoTypes,
     crypto_type2 : CryptoTypes2, key_type : 0..(Len(KeyTypes) - 1),
     rights_id : RightsIds, fs : FsPatterns]

\* Section entry i (from 0) of the section table: every index its own values.
SectionEntry(i) ==
    [media_start_offset |-> (2 * i) % FieldMod,
     media_end_offset |-> (2 * i + 1) % FieldMod,
     unknown1 |-> i % FieldMod,
     unknown2 |-> (SectionCount - 1 - i) % FieldMod]

\* The sector of fs-header slot i (from 0) holding kind k.
FsBody(k, i) ==
    [present |-> IF k = "none" THEN 0 ELSE 1,
     version |-> CASE k = "v3" -> 3 [] k = "v0" -> 0 [] k = "none" -> 0
                   [] OTHER -> 2,
     superblock |-> IF k = "romfs" THEN 1 ELSE 0,
     crypt_type |-> IF k = "none" THEN 0 ELSE 3,
     section_ctr |-> IF k = "none" THEN 0 ELSE (i + 1) % FieldMod,
     master_hash |-> IF k = "none" THEN 0 ELSE (i + 2) % FieldMod,
     block_size |-> IF k = "none" THEN 0 ELSE 1,
     hash_table_offset |-> 0,
     hash_table_size |-> IF k = "none" THEN 0 ELSE 2,
     pfs0_offset |-> IF k = "none" THEN 0 ELSE 4,
     pfs0_size |-> IF k = "none" THEN 0 ELSE (i + 3) % FieldMod]

\* The six sectors of header h in the clear: two signatures, the main
\* header at 0x200, four fs headers from 0x400.
PlainSectors(h) ==
    << [fixed_key_sig |-> 5, npdm_sig |-> 6],
       [magic |-> h.magic, is_gamecard |-> 1, content_type |-> 2,
        crypto_type |-> h.crypto_type, key_type |-> h.key_type,
        nca_size |-> 7, title_id |-> 4, sdk_version |-> 3,
        crypto_type2 |-> h.crypto_type2, rights_id |-> h.rights_id,
        section_entries |-> [i \in 1..SectionCount |-> SectionEntry(i - 1)],
        encrypted_xts_key |-> 1, encrypted_ctr_key |-> 2] >>
    \o [i \in 1..SectionCount |-> FsBody(h.fs[i], i - 1)]

\* The bytes of the file: sector j (from 0) encrypted as sector j.
CipherSectors(h) ==
    [i \in 1..SectorCount |->
        EncryptSector(HeaderEncKey, [body |-> PlainSectors(h)[i], mask |-> 0],
                      i - 1)]

\* [0; 0xC00]
ZeroSectors ==
    << [body |-> [fixed_key_sig |-> 0, npdm_sig |-> 0], mask |-> 0],
       [body |-> [magic |-> 0, is_gamecard |-> 0, content_type |-> 0,
                  crypto_type |-> 0, key_type |-> 0, nca_size |-> 0,
                  title_id |-> 0, sdk_version |-> 0, crypto_type2 |-> 0,
                  rights_id |-> 0,
                  section_entries |->
                      [i \in 1..SectionCount |->
                          [media_start_offset |-> 0, media_end_offset |-> 0,
                           unknown1 |-> 0, unknown2 |-> 0]],
                  encrypted_xts_key |-> 0, encrypted_ctr_key |-> 0],
        mask |-> 0] >>
    \o [i \in 1..SectionCount |-> [body |-> FsBody("none", i - 1), mask |-> 0]]

----------------------------------------------------------------------------
(* The Raw Header Schema decoder: RawNca::read_le *)

\* The 4 bytes at 0x200 of a buffer, as a magic.
MagicAt(buf) == Magics[Rd(buf[2], buf[2].body.magic, Len(Magics)) + 1]

RawSectionEntry(sec, e) ==
    [media_start_offset |-> Rd(sec, e.media_start_offset, FieldMod),
     media_end_offset |-> Rd(sec, e.media_end_offset, FieldMod),
     unknown1 |-> Rd(sec, e.unknown1, FieldMod),
     unknown2 |-> Rd(sec, e.unknown2, FieldMod)]

RawFsHeader(sec) ==
    IF Rd(sec, sec.body.present, 2) = 0 THEN None
    ELSE Some([version |-> Rd(sec, sec.body.version, FieldMod),
               superblock |-> IF Rd(sec, sec.body.superblock, 2) = 0
                              THEN "Pfs0" ELSE "RomFs",
               crypt_type |-> Rd(sec, sec.body.crypt_type, FieldMod),
               section_ctr |-> Rd(sec, sec.body.section_ctr, FieldMod),
               master_hash |-> Rd(sec, sec.body.master_hash, FieldMod),
               block_size |-> Rd(sec, sec.body.block_size, FieldMod),
               hash_table_offset |->
                   Rd(sec, sec.body.hash_table_offset, FieldMod),
               hash_table_size |-> Rd(sec, sec.body.hash_table_size, FieldMod),
               pfs0_offset |-> Rd(sec, sec.body.pfs0_offset, FieldMod),
               pfs0_size |-> Rd(sec, sec.body.pfs0_size, FieldMod)])

RawNcaRead(buf) ==
    LET s0 == buf[1]
        s1 == buf[2]
    IN [fixed_key_sig |-> Rd(s0, s0.body.fixed_key_sig, FieldMod),
        npdm_sig |-> Rd(s0, s0.body.npdm_sig, FieldMod),
        magic |-> MagicAt(buf),
        is_gamecard |-> Rd(s1, s1.body.is_gamecard, 2),
        content_type |-> Rd(s1, s1.body.content_type, FieldMod),
        crypto_type |-> Rd(s1, s1.body.crypto_type, ByteMod),
        key_type |-> KeyTypes[Rd(s1, s1.body.key_type, Len(KeyTypes)) + 1],
        nca_size |-> Rd(s1, s1.body.nca_size, FieldMod),
        title_id |-> Rd(s1, s1.body.title_id, FieldMod),
        sdk_version |-> Rd(s1, s1.body.sdk_version, FieldMod),
        crypto_type2 |-> Rd(s1, s1.body.crypto_type2, ByteMod),
        rights_id |-> Rd(s1, s1.body.rights_id, FieldMod),
        section_entries |->
            [i \in 1..SectionCount |->
                RawSectionEntry(s1, s1.body.section_entries[i])],
        encrypted_xts_key |-> Rd(s1, s1.body.encrypted_xts_key, FieldMod),
        encrypted_ctr_key |-> Rd(s1, s1.body.encrypted_ctr_key, FieldMod),
        fs_headers |-> [i \in 1..SectionCount |->
                           RawFsHeader(buf[FirstPassSectors + i])]]

\* The RawNca of a run that has not decoded one.
NoRaw == RawNcaRead(ZeroSectors)

----------------------------------------------------------------------------
(* The key-set store: Keys *)

\* The key held at index r of the table of family t.
Kak(t, r) == [family |-> t, revision |-> r]

\* Which indices of the three tables hold a key.
KakChoices ==
    { [t \in {"Application", "Ocean", "System"} |-> {}],
      [t \in {"Application", "Ocean", "System"} |-> 0..(KeyTableLen - 1)],
      [t \in {"Application", "Ocean", "System"} |->
          CASE t = "Application" -> {0, 2, 4} [] t = "Ocean" -> {0}
            [] OTHER -> {}],
      [t \in {"Application", "Ocean", "System"} |->
          CASE t = "Application" -> {} [] t = "Ocean" -> {2, 4}
            [] OTHER -> {0, 1, 2, 4}] }

\* header_key is 0 when the store holds none.
KeySets == [header_key : {0} \cup HeaderKeys, present : KakChoices]

\* pki.key_area_key_application() / _ocean() / _system(): a table of
\* KeyTableLen optional keys.
KeyTable(pki, t) ==
    [r \in 0..(KeyTableLen - 1) |->
        IF r \in pki.present[t] THEN Some(Kak(t, r)) ELSE None]

\* pki.header_key()
header_key(pki) ==
    IF pki.header_key = 0 THEN None ELSE Some(pki.header_key)

\* key_area_key.derive_xts_key(&blob) and derive_key(&blob): the unwrapped key
\* is a function of the key-area key and the wrapped bytes; the blobs have
\* the fixed sizes of the header, so the Result is always Ok.
derive_xts_key(k, blob) == [kind |-> "xts", under |-> k, blob |-> blob]
derive_key(k, blob) == [kind |-> "aes", under |-> k, blob |-> blob]

----------------------------------------------------------------------------
(* The pure functions of mod.rs *)

\* format!("{:02x}", n) for n < 256
Hex02(n) == <<HexDigits[(n \div 16) + 1], HexDigits[(n % 16) + 1]>>

Panic(msg) == [tag |-> "Panic", msg |-> msg]
Err(kind, key_name) == [tag |-> "Err", error |-> kind, key_name |-> key_name]
Ok(v) == [tag |-> "Ok", v |-> v]
Running == [tag |-> "Running"]

\* get_key_area_key: the index expression panics past the end of the table.
get_key_area_key(pki, key_version, key_type) ==
    IF key_version >= KeyTableLen
    THEN Panic("index out of bounds")
    ELSE LET key == KeyTable(pki, key_type)[key_version]
         IN IF key.some
            THEN Ok(key.v)
            ELSE Err("MissingKey",
                     <<"key_area_key_application_">> \o Hex02(key_version))

max(a, b) == IF b >= a THEN b ELSE a

\* u8::saturating_sub
saturating_sub(a, b) == IF a >= b THEN a - b ELSE 0

\* get_master_key_revision with wrapping_sub in place of saturating_sub.
get_master_key_revision_wrapping(crypto_type, crypto_type2) ==
    (max(crypto_type2, crypto_type) + ByteMod - 1) % ByteMod

get_master_key_revision(crypto_type, crypto_type2) ==
    saturating_sub(max(crypto_type2, crypto_type), 1)

----------------------------------------------------------------------------
(* The state machine *)

NoSections == [i \in 1..SectionCount |-> None]

\* The locals of a call that has not started.
FreshLocals ==
    /\ header = ZeroSectors
    /\ decrypted_header = ZeroSectors
    /\ magic = "unread"
    /\ raw = NoRaw
    /\ master_key_revision = 0
    /\ key_area_key = None
    /\ decrypted_keys = None
    /\ sections = NoSections
    /\ idx = 0

\* A call of Nca::from_file(pki, file) about to start: a key set, and a
\* reader at the start of a buffer that is empty or holds one header.
Start(k, buf) ==
    /\ keys = k
    /\ stream = [buf |-> buf, pos |-> 0]
    /\ input = [keys |-> k, buf |-> buf]
    /\ pc = "read"
    /\ outcome = Running
    /\ calls = <<>>
    /\ FreshLocals

Init ==
    \E k \in KeySets, buf \in {<<>>} \cup {CipherSectors(h) : h \in Headers} :
        Start(k, buf)

\* file.read_exact(&mut header)?  (lines 128-131)
ReadHeader ==
    /\ pc = "read"
    /\ IF Len(stream.buf) - stream.pos < SectorCount
       THEN /\ outcome' = Err("Io", <<"UnexpectedEof">>)
            /\ pc' = "done"
            /\ stream' = [stream EXCEPT !.pos = Len(stream.buf)]
            /\ UNCHANGED header
       ELSE /\ header' = SubSeq(stream.buf, stream.pos + 1,
                                stream.pos + SectorCount)
            /\ stream' = [stream EXCEPT !.pos = @ + SectorCount]
            /\ pc' = "first"
            /\ UNCHANGED outcome
    /\ UNCHANGED <<keys, input, decrypted_header, magic, raw,
                   master_key_revision, key_area_key, decrypted_keys,
                   sections, idx, calls>>

\* The header key, and the first pass over the first 0x400 bytes
\* (lines 135-140).
DecryptFirst ==
    /\ pc = "first"
    /\ LET hk == header_key(keys)
       IN IF ~hk.some
          THEN /\ outcome' = Err("MissingKey", <<"header_key">>)
               /\ pc' = "done"
               /\ UNCHANGED <<decrypted_header, calls>>
          ELSE /\ decrypted_header' =
                      decrypt(hk.v, SubSeq(header, 1, FirstPassSectors), 0)
                      \o SubSeq(decrypted_header, FirstPassSectors + 1,
                                SectorCount)
               /\ calls' = Append(calls, "decrypt_0x400")
               /\ pc' = "branch"
               /\ UNCHANGED outcome
    /\ UNCHANGED <<keys, stream, input, header, magic, raw,
                   master_key_revision, key_area_key, decrypted_keys,
                   sections, idx>>

\* BranchOf without its last arm: an unknown magic goes on as NCA3 does.
BranchOfNoDefault(m) ==
    CASE m = "NCA2" -> "todo"
      [] m = "NCA0" -> "unimplemented"
      [] OTHER -> "decrypt"

\* match magic (lines 144-169): which arm a magic takes.
BranchOf(m) ==
    CASE m = "NCA3" -> "decrypt"
      [] m = "NCA2" -> "todo"
      [] m = "NCA0" -> "unimplemented"
      [] OTHER -> "parse_error"

\* SecondPassInput without the copy: the second pass runs over the buffer the
\* first pass left.
SecondPassInPlace(hdr, dec) == dec

\* decrypted_header.copy_from_slice(&header) (line 146): what the second pass
\* decrypts.
SecondPassInput(hdr, dec) == hdr

\* The dispatch on the magic at 0x200 (lines 143-169).
MagicBranch ==
    /\ pc = "branch"
    /\ LET m == MagicAt(decrypted_header)
           b == BranchOf(m)
       IN /\ magic' = m
          /\ CASE b = "decrypt" ->
                    /\ decrypted_header' =
                           decrypt(header_key(keys).v,
                                   SecondPassInput(header, decrypted_header),
                                   0)
                    /\ calls' = Append(calls, "decrypt_0xC00")
                    /\ pc' = "decode"
                    /\ UNCHANGED outcome
               [] b = "todo" ->
                    /\ outcome' = Panic("not yet implemented")
                    /\ pc' = "done"
                    /\ UNCHANGED <<decrypted_header, calls>>
               [] b = "unimplemented" ->
                    /\ outcome' = Panic("not implemented: NCA0 parsing is not implemented yet")
                    /\ pc' = "done"
                    /\ UNCHANGED <<decrypted_header, calls>>
               [] OTHER ->
                    /\ outcome' = Err("NcaParse", <<"header_key">>)
                    /\ pc' = "done"
                    /\ UNCHANGED <<decrypted_header, calls>>
    /\ UNCHANGED <<keys, stream, input, header, raw,
                   master_key_revision, key_area_key, decrypted_keys,
                   sections, idx>>

\* RawNca::read_le(&mut raw_nca).expect(..) (lines 173-175): the buffer is
\* always 0xC00 bytes, the size the decoder asks for.
Decode ==
    /\ pc = "decode"
    /\ raw' = RawNcaRead(decrypted_header)
    /\ calls' = Append(calls, "read_le")
    /\ pc' = "format"
    /\ UNCHANGED <<keys, stream, input, header, decrypted_header,
                   magic, master_key_revision, key_area_key, decrypted_keys,
                   sections, idx, outcome>>

\* let has_rights_id = header.rights_id != [0; 0x10] (line 196)
has_rights_id == raw.rights_id # 0

\* match &header.magic, and the master key revision (lines 181-193)
MatchFormat ==
    /\ pc = "format"
    /\ IF raw.magic \in {"NCA3", "NCA2", "NCA0"}
       THEN /\ master_key_revision' =
                   get_master_key_revision(raw.crypto_type, raw.crypto_type2)
            /\ pc' = "kak"
            /\ UNCHANGED outcome
       ELSE /\ outcome' = Panic("internal error: entered unreachable code")
            /\ pc' = "done"
            /\ UNCHANGED master_key_revision
    /\ UNCHANGED <<keys, stream, input, header, decrypted_header,
                   magic, raw, key_area_key, decrypted_keys, sections, idx,
                   calls>>

\* let key_area_key = get_key_area_key(..)? (line 198)
KeyAreaKey ==
    /\ pc = "kak"
    /\ LET r == get_key_area_key(keys, master_key_revision, raw.key_type)
       IN /\ calls' = Append(calls, "get_key_area_key")
          /\ IF r.tag = "Ok"
             THEN /\ key_area_key' = Some(r.v)
                  /\ pc' = "derive"
                  /\ UNCHANGED outcome
             ELSE /\ outcome' = r
                  /\ pc' = "done"
                  /\ UNCHANGED key_area_key
    /\ UNCHANGED <<keys, stream, input, header, decrypted_header,
                   magic, raw, master_key_revision, decrypted_keys, sections,
                   idx>>

\* let decrypted_keys = if !has_rights_id {..} else {unimplemented!}
\* (lines 200-209)
DeriveKeys ==
    /\ pc = "derive"
    /\ IF ~has_rights_id
       THEN /\ decrypted_keys' =
                   Some([xts |-> derive_xts_key(key_area_key.v,
                                                raw.encrypted_xts_key),
                         ctr |-> derive_key(key_area_key.v,
                                            raw.encrypted_ctr_key)])
            /\ calls' = calls \o <<"derive_xts_key", "derive_key">>
            /\ pc' = "section"
            /\ UNCHANGED outcome
       ELSE /\ outcome' = Panic("not implemented: Rights ID")
            /\ pc' = "done"
            /\ UNCHANGED <<decrypted_keys, calls>>
    /\ UNCHANGED <<keys, stream, input, header, decrypted_header,
                   magic, raw, master_key_revision, key_area_key, sections,
                   idx>>

\* ZipAt with the section entries walked from the other end.
ZipAtReversed(r, i) ==
    [section |-> r.section_entries[SectionCount - i],
     fs |-> r.fs_headers[i + 1]]

\* section_entries.iter().zip(fs_headers.iter()).enumerate() (lines 213-217):
\* the pair the loop sees at index i (from 0).
ZipAt(r, i) ==
    [section |-> r.section_entries[i + 1], fs |-> r.fs_headers[i + 1]]

\* Some(SectionJson {..}) (lines 226-245)
SectionJson(section, fs) ==
    [crypto |-> fs.crypt_type,
     fstype |-> [kind |-> "Pfs0",
                 master_hash |-> fs.master_hash,
                 block_size |-> fs.block_size,
                 hash_table_offset |-> fs.hash_table_offset,
                 hash_table_size |-> fs.hash_table_size,
                 pfs0_offset |-> fs.pfs0_offset,
                 pfs0_size |-> fs.pfs0_size],
     nounce |-> fs.section_ctr,
     media_start_offset |-> section.media_start_offset,
     media_end_offset |-> section.media_end_offset,
     unknown1 |-> section.unknown1,
     unknown2 |-> section.unknown2]

\* One iteration of the section loop (lines 213-249).
ParseSection ==
    /\ pc = "section"
    /\ idx < SectionCount
    /\ LET p == ZipAt(raw, idx)
       IN IF ~p.fs.some
          THEN /\ idx' = idx + 1
               /\ UNCHANGED <<sections, outcome, pc, calls>>
          ELSE IF has_rights_id
          THEN /\ outcome' = Panic("not implemented: Rights ID")
               /\ pc' = "done"
               /\ UNCHANGED <<sections, idx, calls>>
          ELSE IF p.fs.v.version # 2
          THEN /\ outcome' = Panic("assertion failed: Invalid NCA FS Header version")
               /\ pc' = "done"
               /\ UNCHANGED <<sections, idx, calls>>
          ELSE IF p.fs.v.superblock # "Pfs0"
          THEN /\ outcome' = Panic("internal error: entered unreachable code")
               /\ pc' = "done"
               /\ calls' = Append(calls, "superblock")
               /\ UNCHANGED <<sections, idx>>
          ELSE /\ sections' =
                      [sections EXCEPT
                          ![idx + 1] = Some(SectionJson(p.section, p.fs.v))]
               /\ calls' = Append(calls, "superblock")
               /\ idx' = idx + 1
               /\ UNCHANGED <<outcome, pc>>
    /\ UNCHANGED <<keys, stream, input, header, decrypted_header,
                   magic, raw, master_key_revision, key_area_key,
                   decrypted_keys>>

\* NcaJson {..} (lines 253-270)
NcaJson ==
    [format |-> raw.magic,
     sig |-> raw.fixed_key_sig,
     npdm_sig |-> raw.npdm_sig,
     is_gamecard |-> raw.is_gamecard # 0,
     content_type |-> raw.content_type,
     key_revision |-> master_key_revision,
     key_type |-> raw.key_type,
     nca_size |-> raw.nca_size,
     title_id |-> raw.title_id,
     sdk_version |-> raw.sdk_version,
     xts_key |-> decrypted_keys.v.xts,
     ctr_key |-> decrypted_keys.v.ctr,
     rights_id |-> None,
     sections |-> sections]

\* Ok(Nca { stream: file, json }) (lines 251-273)
Assemble ==
    /\ pc = "section"
    /\ idx = SectionCount
    /\ outcome' = Ok([stream_pos |-> stream.pos, json |-> NcaJson])
    /\ pc' = "done"
    /\ UNCHANGED <<keys, stream, input, header, decrypted_header,
                   magic, raw, master_key_revision, key_area_key,
                   decrypted_keys, sections, idx, calls>>

Next ==
    \/ ReadHeader
    \/ DecryptFirst
    \/ MagicBranch
    \/ Decode
    \/ MatchFormat
    \/ KeyAreaKey
    \/ DeriveKeys
    \/ ParseSection
    \/ Assemble

Spec == Init /\ [][Next]_vars

----------------------------------------------------------------------------
(* Every pair of crypto_type bytes *)

\* A key set holding the header key and every key-area key.
FullKeys ==
    [header_key |-> HeaderEncKey,
     present |-> [t \in {"Application", "Ocean", "System"} |->
                     0..(KeyTableLen - 1)]]

InitRev ==
    \E a \in 0..(ByteMod - 1), b \in 0..(ByteMod - 1) :
        Start(FullKeys,
              CipherSectors([magic |-> MagicCode("NCA3"), crypto_type |-> a,
                             crypto_type2 |-> b, key_type |-> 0,
                             rights_id |-> 0,
                             fs |-> <<"pfs0", "none", "pfs0", "none">>]))

SpecRev == InitRev /\ [][Next]_vars

----------------------------------------------------------------------------
(* Properties *)

Done == pc = "done"
Called(c) == \E i \in DOMAIN calls : calls[i] = c
KnownMagics == {"NCA3", "NCA2", "NCA0"}

\* The key name a missing key-area key of family t and revision r should
\* carry.
KeyAreaKeyName(t, r) ==
    << CASE t = "Application" -> "key_area_key_application_"
         [] t = "Ocean" -> "key_area_key_ocean_"
         [] OTHER -> "key_area_key_system_" >> \o Hex02(r)

\* The header the file holds in the clear (only a key set holding the key
\* the file was encrypted under reads it).
InputPresent == [i \in 1..SectionCount |->
                   input.buf[FirstPassSectors + i].body.present = 1]

\* C1: a run that read the magic NCA2 or NCA0 after the first pass ends in a
\* returned UnsupportedFormat error, never in a panic or a container.
C1_LegacyMagicIsUnsupportedFormat ==
    (Done /\ magic \in {"NCA2", "NCA0"}) =>
        (outcome.tag = "Err" /\ outcome.error = "UnsupportedFormat")

\* C2: a run over an NCA3 header with a non-zero rights id ends in a returned
\* UnsupportedFormat error whatever the store holds for the key-area key, and
\* derives no key from a key-area key.
C2_RightsIdIsUnsupportedFormat ==
    (Done /\ Called("read_le") /\ raw.magic = "NCA3" /\ has_rights_id) =>
        /\ outcome.tag = "Err" /\ outcome.error = "UnsupportedFormat"
        /\ ~Called("derive_xts_key") /\ ~Called("derive_key")

\* C3: a MissingKey error names the key that was looked up: header_key for
\* the header key, the family and the revision for a key-area key.
C3_MissingKeyNamesTheLookup ==
    (Done /\ outcome.tag = "Err" /\ outcome.error = "MissingKey") =>
        IF Called("get_key_area_key")
        THEN outcome.key_name =
                 KeyAreaKeyName(raw.key_type, master_key_revision)
        ELSE outcome.key_name = <<"header_key">>

\* C4: once the key-area key has been looked up, the run holds the key stored
\* at (key_type, revision) or has ended in MissingKey because none is stored
\* there; the lookup never panics.
C4_KeyResolutionIsTotal ==
    Called("get_key_area_key") =>
        \/ /\ key_area_key.some
           /\ master_key_revision < KeyTableLen
           /\ key_area_key =
                  KeyTable(keys, raw.key_type)[master_key_revision]
           /\ key_area_key.v = Kak(raw.key_type, master_key_revision)
        \/ /\ ~key_area_key.some
           /\ Done
           /\ outcome.tag = "Err" /\ outcome.error = "MissingKey"
           /\ master_key_revision \notin keys.present[raw.key_type]

\* C5: a run over an NCA3 header with zero rights id and its keys present, in
\* which a present fs header has a version other than 2, ends in a returned
\* ValidationError, without a panic and without reading that superblock.
C5_BadFsVersionIsValidationError ==
    (/\ Done
     /\ decrypted_keys.some
     /\ raw.magic = "NCA3"
     /\ ~has_rights_id
     /\ \E i \in 1..SectionCount :
            raw.fs_headers[i].some /\ raw.fs_headers[i].v.version # 2) =>
        (outcome.tag = "Err" /\ outcome.error = "ValidationError")

\* C6: a run that read a magic other than NCA3, NCA2, NCA0 has ended in the
\* parse error, after the first decryption pass only: no second pass, no
\* decode, no key-area-key lookup.
C6_UnknownMagicIsParseError ==
    (magic \notin KnownMagics \cup {"unread"}) =>
        /\ Done
        /\ outcome = Err("NcaParse", <<"header_key">>)
        /\ calls = <<"decrypt_0x400">>
        /\ raw = NoRaw
        /\ key_area_key = None

C6_Witness ==
    /\ Done
    /\ magic = "JUNK"
    /\ keys.header_key # 0

\* C7: the master key revision is max(crypto_type, crypto_type2) - 1, and 0
\* when that maximum is 0: symmetric, within 0..254, with the five values of
\* the table; and a container's key_revision is that value.
C7_MasterKeyRevision ==
    /\ get_master_key_revision(0, 0) = 0
    /\ get_master_key_revision(1, 0) = 0
    /\ get_master_key_revision(0, 1) = 0
    /\ get_master_key_revision(3, 5) = 4
    /\ get_master_key_revision(5, 3) = 4
    /\ (pc \in {"kak", "derive", "section"} \/ Called("get_key_area_key")) =>
           LET a == raw.crypto_type
               b == raw.crypto_type2
               r == master_key_revision
           IN /\ r \in 0..(ByteMod - 2)
              /\ (a = 0 /\ b = 0) => r = 0
              /\ (a >= 1 \/ b >= 1) =>
                     /\ r + 1 \in {a, b}
                     /\ r + 1 >= a
                     /\ r + 1 >= b
              /\ r = get_master_key_revision(b, a)
              /\ outcome.tag = "Ok" => outcome.v.json.key_revision = r

C7_Witness ==
    /\ outcome.tag = "Ok"
    /\ raw.crypto_type = 3
    /\ raw.crypto_type2 = 5
    /\ outcome.v.json.key_revision = 4

\* C8: in a container, section slot i is Some exactly when fs-header slot i
\* of the raw header is present, and then carries the offsets and reserved
\* fields of section entry i; fs headers at 0 and 2 only give Some at 0 and 2
\* only.
C8_SectionTableFollowsFsHeaders ==
    outcome.tag = "Ok" =>
        LET out == outcome.v.json.sections
        IN /\ \A i \in 1..SectionCount :
                 /\ out[i].some <=> raw.fs_headers[i].some
                 /\ out[i].some =>
                        LET e == raw.section_entries[i]
                        IN /\ out[i].v.media_start_offset = e.media_start_offset
                           /\ out[i].v.media_end_offset = e.media_end_offset
                           /\ out[i].v.unknown1 = e.unknown1
                           /\ out[i].v.unknown2 = e.unknown2
                 /\ (out[i].some /\ keys.header_key = HeaderEncKey) =>
                        /\ out[i].v.media_start_offset =
                               SectionEntry(i - 1).media_start_offset
                        /\ out[i].v.media_end_offset =
                               SectionEntry(i - 1).media_end_offset
           /\ (keys.header_key = HeaderEncKey
               /\ InputPresent = <<TRUE, FALSE, TRUE, FALSE>>) =>
                  {i \in 1..SectionCount : out[i].some} = {1, 3}

C8_Witness ==
    /\ outcome.tag = "Ok"
    /\ keys.header_key = HeaderEncKey
    /\ InputPresent = <<TRUE, FALSE, TRUE, FALSE>>
    /\ outcome.v.json.sections[3].some

\* C10: on the NCA3 path the buffer the decoder reads is the bytes read from
\* the stream with every sector i of 0..5 decrypted once, as sector i; the
\* two passes are the only decryptions, and the decoder sees the magic the
\* branch was picked by.
C10_EverySectorDecryptedOnce ==
    Called("decrypt_0xC00") =>
        /\ magic = "NCA3"
        /\ SubSeq(calls, 1, 2) = <<"decrypt_0x400", "decrypt_0xC00">>
        /\ \A i \in 3..Len(calls) : calls[i] \notin
               {"decrypt_0x400", "decrypt_0xC00"}
        /\ Len(decrypted_header) = SectorCount
        /\ \A i \in 1..SectorCount :
               /\ decrypted_header[i].body = input.buf[i].body
               /\ decrypted_header[i].mask =
                      (input.buf[i].mask + MaskMod
                          - Stream(keys.header_key, i - 1)) % MaskMod
               /\ keys.header_key = HeaderEncKey =>
                      decrypted_header[i].mask = 0
        /\ MagicAt(decrypted_header) = magic
        /\ Called("read_le") => raw.magic = magic

C10_Witness ==
    /\ Called("read_le")
    /\ keys.header_key = HeaderEncKey
    /\ raw.magic = "NCA3"

====
